---------------------------- MODULE Spec2Model ----------------------------
(***************************************************************************)
(* data-formats (src/src/Json.js): Mapper chains and the Format that       *)
(* applies an ordered list of them to read a JSON-shaped object into an    *)
(* entity instance and to write it back.                                   *)
(*                                                                         *)
(* The state is the heap of the objects the library has constructed        *)
(* (mappers and formats, referenced by their index) and the outcome of the *)
(* last call.  JavaScript values are records of one shape,                 *)
(*     [t: type tag, n: integer payload, s: string payload, f: fields],    *)
(* and functions are the sequences of the steps they are composed of.      *)
(***************************************************************************)
EXTENDS Integers, Sequences, FiniteSets, TLC

VARIABLES
    mappers,    \* every Mapper constructed so far, in construction order
    formats,    \* every Format constructed so far, in construction order
    call,       \* the last operation called and its outcome
    chain,      \* history: the call that constructed each mapper
    origin,     \* history: the call that constructed each format
    budget      \* how many more mappers and formats the caller will construct

vars == <<mappers, formats, call, chain, origin, budget>>

\* Field names used by the configuration, the sources and the models.
Names == {"a", "b"}

-----------------------------------------------------------------------------
(* JavaScript values *)

NoFields == [k \in {} |-> 0]

Prim(t, n, s) == [t |-> t, n |-> n, s |-> s, f |-> NoFields]

Undefined == Prim("undefined", 0, "")
Null      == Prim("null", 0, "")
NaN       == Prim("NaN", 0, "")
Num(k)    == Prim("number", k, "")
Str(s)    == Prim("string", 0, s)
Bool(b)   == Prim("boolean", IF b THEN 1 ELSE 0, "")

\* An object of class cl ("Object" for a literal, "" for a null prototype).
Obj(cl, fields) == [t |-> "object", n |-> 0, s |-> cl, f |-> fields]

\* An array; its elements are keyed "0", "1", ... as in JavaScript.
IndexKey(i) == <<"0", "1", "2", "3">>[i + 1]
Arr(elems) ==
    [t |-> "array", n |-> Len(elems), s |-> "",
     f |-> [k \in {IndexKey(i - 1) : i \in 1..Len(elems)} |->
               elems[CHOOSE i \in 1..Len(elems) : IndexKey(i - 1) = k]]]
Elems(a) == [i \in 1..a.n |-> a.f[IndexKey(i - 1)]]

\* What moment( v, format ) returns: an object wrapping what it parsed.
Moment(v, format) ==
    [t |-> "moment", n |-> 0, s |-> format, f |-> [k \in {"_i"} |-> v]]

\* An abrupt completion (an exception on its way up); never a value.
Thrown == Prim("throw", 0, "")

\* ToBoolean
Truthy(v) ==
    CASE v.t \in {"undefined", "null", "NaN"} -> FALSE
      [] v.t = "boolean" -> v.n = 1
      [] v.t = "number"  -> v.n # 0
      [] v.t = "string"  -> v.s # ""
      [] OTHER -> TRUE

\* The numeric strings of the model; every other string is no number.
StringToNumber(s) ==
    CASE s = ""   -> Num(0)
      [] s = "0"  -> Num(0)
      [] s = "1"  -> Num(1)
      [] s = "-1" -> Num(-1)
      [] s = "2"  -> Num(2)
      [] OTHER    -> NaN

\* ToNumber, the unary +.
ToNumber(v) ==
    CASE v.t = "undefined" -> NaN
      [] v.t = "null"      -> Num(0)
      [] v.t = "boolean"   -> Num(v.n)
      [] v.t = "number"    -> v
      [] v.t = "string"    -> StringToNumber(v.s)
      [] v.t = "array"     ->
            IF v.n = 0 THEN Num(0)
            ELSE IF v.n = 1 /\ v.f["0"].t \in {"number", "NaN"} THEN v.f["0"]
            ELSE IF v.n = 1 /\ v.f["0"].t = "string" THEN StringToNumber(v.f["0"].s)
            ELSE IF v.n = 1 /\ v.f["0"].t \in {"undefined", "null"} THEN Num(0)
            ELSE NaN
      [] OTHER -> NaN

\* value[ name ]: a TypeError on null and undefined, undefined on a missing key.
Get(v, name) ==
    CASE v.t \in {"undefined", "null", "throw"} -> Thrown
      [] v.t \in {"object", "array", "moment"} ->
            IF name \in DOMAIN v.f THEN v.f[name] ELSE Undefined
      [] OTHER -> Undefined

\* object[ name ] = value
Put(o, name, v) ==
    [o EXCEPT !.f = [k \in (DOMAIN o.f) \cup {name} |->
                        IF k = name THEN v ELSE o.f[k]]]

MathAbs(v) ==
    LET x == ToNumber(v) IN
    IF x.t = "NaN" THEN NaN ELSE Num(IF x.n < 0 THEN -x.n ELSE x.n)

MathMax(v, w) ==
    LET x == ToNumber(v)  y == ToNumber(w) IN
    IF x.t = "NaN" \/ y.t = "NaN" THEN NaN
    ELSE Num(IF x.n >= y.n THEN x.n ELSE y.n)

MathMin(v, w) ==
    LET x == ToNumber(v)  y == ToNumber(w) IN
    IF x.t = "NaN" \/ y.t = "NaN" THEN NaN
    ELSE Num(IF x.n <= y.n THEN x.n ELSE y.n)

\* a + b on two numbers
Plus(x, y) ==
    IF x.t = "NaN" \/ y.t = "NaN" THEN NaN ELSE Num(x.n + y.n)

-----------------------------------------------------------------------------
(* Functions: the read and write functions of a mapper are compositions,   *)
(* kept as the sequence of their steps, innermost first.  The empty        *)
(* sequence is a function that was never given (undefined).                *)

Step(op, n, s, d) == [op |-> op, n |-> n, s |-> s, d |-> d]

NoFunction == << >>

\* j => j[ name ], m => m[ name ]
GetStep(name) == Step("get", 0, name, Undefined)
\* _ => void 0
VoidStep == Step("void", 0, "", Undefined)
\* v => v
IdStep == Step("id", 0, "", Undefined)
\* calling a function that was never given: a TypeError
CallUndefinedStep == Step("callUndefined", 0, "", Undefined)

\* The functions a caller passes to transform and rawTransform.
\*   "throw"      a step that throws
\*   "const0"     () => 0
\*   "boolString" b => b ? 'true' : 'false'
\*   "rawSum"     json => (+json[ 'a' ]) + (+json[ 'b' ])
UserStep(fn) == Step(fn, 0, "", Undefined)

\* name => x => f( g( x ) ), with g the function built so far
Compose(g, step) ==
    IF g = NoFunction THEN <<CallUndefinedStep, step>> ELSE Append(g, step)

\* The collection of the tests, for idResolver.
objectToResolve ==
    Arr(<<Obj("Object", [k \in {"id"} |-> Str("1")]),
          Obj("Object", [k \in {"id"} |-> Str("2")])>>)

\* _.find( array, { [ idField ]: v } ): the first element whose idField is v.
Find(array, idField, v) ==
    LET es  == Elems(array)
        hit == {i \in 1..Len(es) :
                   /\ es[i].t = "object"
                   /\ idField \in DOMAIN es[i].f
                   /\ es[i].f[idField] = v}
    IN  IF hit = {} THEN Undefined
        ELSE es[CHOOSE i \in hit : \A j \in hit : i <= j]

\* The entity classes: what new cl() returns.  Test declares fields and sets
\* none; Test2 is a subtype of Test whose constructor sets b; Foo is the
\* nested entity; Broken has a constructor that throws.
Classes == {"Test", "Test2", "Foo", "Broken"}
New(cl) ==
    CASE cl = "Test2"  -> Obj("Test2", [k \in {"b"} |-> Str("ctor")])
      [] cl = "Broken" -> Thrown
      [] OTHER         -> Obj(cl, NoFields)

-----------------------------------------------------------------------------
(* Applying a mapper's functions, and Format.read / Format.write *)

\* What a call of read or write comes to: the value returned (Undefined when
\* the call raised), whether it raised to the caller, the mappers whose
\* function was invoked (in order), and whether an entity was constructed.
Outcome(result, raised, trace, constructed) ==
    [result |-> result, raised |-> raised, trace |-> trace,
     constructed |-> constructed]

RECURSIVE Apply(_, _, _)
RECURSIVE ReadMappers(_, _, _, _, _, _)
RECURSIVE WriteMappers(_, _, _, _, _, _)
RECURSIVE MapElements(_, _, _, _)
RECURSIVE Format_read(_, _)
RECURSIVE Format_write(_, _)

\* What a nested call f.read( v ) / f.write( v ) hands back to the step.
Returned(outcome) == IF outcome.raised THEN Thrown ELSE outcome.result

\* One step of a composition applied to the value v.
ApplyStep(st, v) ==
    CASE st.op = "get"           -> Get(v, st.s)
      [] st.op = "void"          -> Undefined
      [] st.op = "id"            -> v
      [] st.op = "callUndefined" -> Thrown
      [] st.op = "throw"         -> Thrown
      [] st.op = "const0"        -> Num(0)
      [] st.op = "boolString"    -> Str(IF Truthy(v) THEN "true" ELSE "false")
      [] st.op = "rawSum"        ->
            IF Get(v, "a") = Thrown THEN Thrown
            ELSE Plus(ToNumber(Get(v, "a")), ToNumber(Get(v, "b")))
      \* Mapper.boolean, line 188
      [] st.op = "boolean"       ->
            Bool(v # Undefined /\ (v = Bool(TRUE) \/ v = Str("true")
                                      \/ v = Str("1") \/ v = Num(1)))
      \* Mapper.number, line 195
      [] st.op = "number"        -> ToNumber(v)
      \* NumberMapper.abs / min / max, lines 261, 265, 269
      [] st.op = "abs"           -> IF Truthy(v) THEN MathAbs(v) ELSE v
      [] st.op = "min"           -> IF Truthy(v) THEN MathMax(v, st.d) ELSE st.d
      [] st.op = "max"           -> IF Truthy(v) THEN MathMin(v, st.d) ELSE st.d
      \* Mapper.defaultsTo, line 237
      [] st.op = "default"       -> IF Truthy(v) THEN v ELSE st.d
      \* Mapper.date, line 214
      [] st.op = "moment"        -> Moment(v, st.s)
      \* Mapper.idResolver, line 246
      [] st.op = "find"          -> Find(st.d, st.s, v)
      [] st.op = "idOf"          -> IF Truthy(v) THEN Get(v, st.s) ELSE Null
      \* Mapper.arrayOf, lines 204-205
      [] st.op = "arrayRead"     ->
            IF v.t = "array" THEN MapElements("read", st.n, Elems(v), << >>)
            ELSE Undefined
      [] st.op = "arrayWrite"    ->
            IF v.t = "array" THEN MapElements("write", st.n, Elems(v), << >>)
            ELSE Undefined
      \* JsonNode.is, line 331
      [] st.op = "formatRead"    -> Returned(Format_read(st.n, v))
      [] st.op = "formatWrite"   -> Returned(Format_write(st.n, v))

\* The composition fn from its k-th step on, applied to v.
Apply(fn, k, v) ==
    IF k > Len(fn) THEN v
    ELSE LET r == ApplyStep(fn[k], v)
         IN  IF r = Thrown THEN Thrown ELSE Apply(fn, k + 1, r)

\* mapper.read( source ), mapper.write( model )
Mapper_read(m, source) == Apply(m.read, 1, source)
Mapper_write(m, model) == Apply(m.write, 1, model)

\* a.map( e => f.read( e ) ), a.map( e => f.write( e ) )
MapElements(dir, fi, es, done) ==
    IF es = << >> THEN Arr(done)
    ELSE LET r == IF dir = "read" THEN Returned(Format_read(fi, Head(es)))
                  ELSE Returned(Format_write(fi, Head(es)))
         IN  IF r = Thrown THEN Thrown
             ELSE MapElements(dir, fi, Tail(es), Append(done, r))

\* Variant: the first mapper to assign a name keeps it.
Assign_KeepFirst(out, name, value, dropUndefined) ==
    IF dropUndefined /\ value = Undefined THEN out
    ELSE IF name \in DOMAIN out.f THEN out
    ELSE Put(out, name, value)

\* Variant: undefined is assigned like any other value.
Assign_Always(out, name, value, dropUndefined) == Put(out, name, value)

\* if( this.dropUndefined && value === undefined ) return; out[ name ] = value
\* (lines 42-45 and 122-124)
Assign(out, name, value, dropUndefined) ==
    IF dropUndefined /\ value = Undefined THEN out ELSE Put(out, name, value)

\* The composite this._read of the constructor (lines 40-46), from the k-th
\* mapper of the list ml on.  An exception leaves the loop at once.
ReadMappers(ml, k, source, out, dropUndefined, trace) ==
    IF k > Len(ml) THEN Outcome(out, FALSE, trace, TRUE)
    ELSE LET f     == mappers[ml[k]]
             value == Mapper_read(f, source)
             seen  == Append(trace, ml[k])
         IN  IF value = Thrown THEN Outcome(Thrown, FALSE, seen, TRUE)
             ELSE ReadMappers(ml, k + 1, source,
                              Assign(out, f.modelName, value, dropUndefined),
                              dropUndefined, seen)

\* The forEach of write (lines 120-125), from the k-th mapper on: mappers
\* with no write function are filtered out, f.write runs once for the test
\* and once more for the assignment.
WriteMappers(ml, k, model, out, dropUndefined, trace) ==
    IF k > Len(ml) THEN Outcome(out, FALSE, trace, FALSE)
    ELSE LET f     == mappers[ml[k]]
             value == Mapper_write(f, model)
             seen  == Append(trace, ml[k])
         IN  IF f.write = NoFunction
             THEN WriteMappers(ml, k + 1, model, out, dropUndefined, trace)
             ELSE IF value = Thrown THEN Outcome(Thrown, FALSE, seen, FALSE)
             ELSE WriteMappers(ml, k + 1, model,
                               Assign(out, f.name, value, dropUndefined),
                               dropUndefined,
                               IF dropUndefined /\ value = Undefined
                               THEN seen ELSE Append(seen, ml[k]))

\* Variant: no catch, the exception reaches the caller.
Firewall_Rethrow(outcome) ==
    IF outcome.result = Thrown
    THEN [outcome EXCEPT !.result = Undefined, !.raised = TRUE]
    ELSE outcome

\* The catch of read and write: the exception is logged, the call returns
\* undefined.
Firewall(outcome) ==
    IF outcome.result = Thrown
    THEN [outcome EXCEPT !.result = Undefined]
    ELSE outcome

\* read() of the class writeonly() returns / write() of the class readonly()
\* returns (lines 86-89, 102-105): logs, throws unless silent.
Refuse(silent) == Outcome(Undefined, ~Truthy(silent), << >>, FALSE)

\* Variant: Format.read without the test of line 56.
Format_read_Unguarded(fi, source) ==
    LET this == formats[fi] IN
    IF this.kind = "writeonly" THEN Refuse(this.silent)
    ELSE LET out == New(this.cl) IN
         Firewall(IF out = Thrown THEN Outcome(Thrown, FALSE, << >>, FALSE)
                  ELSE ReadMappers(this.mappers, 1, source, out,
                                   this.dropUndefined, << >>))

\* Format.read (lines 55-68)
Format_read(fi, source) ==
    LET this == formats[fi] IN
    IF this.kind = "writeonly" THEN Refuse(this.silent)
    ELSE IF ~Truthy(source) THEN Outcome(Null, FALSE, << >>, FALSE)
    ELSE LET out == New(this.cl) IN
         Firewall(IF out = Thrown THEN Outcome(Thrown, FALSE, << >>, FALSE)
                  ELSE ReadMappers(this.mappers, 1, source, out,
                                   this.dropUndefined, << >>))

\* Format.write (lines 114-133)
Format_write(fi, model) ==
    LET this == formats[fi] IN
    IF this.kind = "readonly" THEN Refuse(this.silent)
    ELSE IF ~Truthy(model) THEN Outcome(Null, FALSE, << >>, FALSE)
    ELSE Firewall(WriteMappers(this.mappers, 1, model, Obj("", NoFields),
                               this.dropUndefined, << >>))

-----------------------------------------------------------------------------
(* Mappers.  A method takes the heap ms and the receiver's index i and      *)
(* returns the heap after the call; the mapper it returns is the last one.  *)

\* SimpleMapper's constructor (lines 165-170); kind is the class constructed.
NewMapper(kind, name, modelName, read, write) ==
    [kind |-> kind, name |-> name, modelName |-> modelName,
     read |-> read, write |-> write]

Kinds == {"Mapper", "NumberMapper", "JsonValue", "JsonNode"}

\* Mapper.transform (lines 250-252)
Mapper_transform(ms, i, read, write) ==
    Append(ms, NewMapper("Mapper", ms[i].name, ms[i].modelName,
                         Compose(ms[i].read, read),
                         Compose(ms[i].write, write)))

\* NumberMapper.transform (lines 273-275): the write step is not composed.
NumberMapper_transform(ms, i, read, write) ==
    Append(ms, NewMapper("NumberMapper", ms[i].name, ms[i].modelName,
                         Compose(ms[i].read, read), ms[i].write))

\* this.transform( ... ): the receiver's class decides which one runs.
transform(ms, i, read, write) ==
    IF ms[i].kind = "NumberMapper"
    THEN NumberMapper_transform(ms, i, read, write)
    ELSE Mapper_transform(ms, i, read, write)

\* Mapper.boolean (lines 187-189)
Mapper_boolean(ms, i) ==
    transform(ms, i, Step("boolean", 0, "", Undefined), IdStep)

\* Mapper.number (lines 194-196)
Mapper_number(ms, i) ==
    Append(ms, NewMapper("NumberMapper", ms[i].name, ms[i].modelName,
                         Compose(ms[i].read, Step("number", 0, "", Undefined)),
                         ms[i].write))

\* Mapper.arrayOf (lines 202-207); fi is the format f.
Mapper_arrayOf(ms, i, fi) ==
    transform(ms, i, Step("arrayRead", fi, "", Undefined),
                     Step("arrayWrite", fi, "", Undefined))

\* Mapper.date (lines 213-215)
DefaultDateFormat == "YYYY-MM-DD[T]HH:mm:ss.SSSZ"
Mapper_date(ms, i, format) ==
    transform(ms, i, Step("moment", 0, format, Undefined), IdStep)

\* Mapper.readonly (lines 220-222)
Mapper_readonly(ms, i) ==
    Append(ms, NewMapper("Mapper", ms[i].name, ms[i].modelName,
                         ms[i].read, <<VoidStep>>))

\* Mapper.writeonly (lines 227-229)
Mapper_writeonly(ms, i) ==
    Append(ms, NewMapper("Mapper", ms[i].name, ms[i].modelName,
                         <<VoidStep>>, ms[i].write))

\* Mapper.defaultsTo (lines 236-238)
Mapper_defaultsTo(ms, i, value) ==
    transform(ms, i, Step("default", 0, "", value),
                     Step("default", 0, "", value))

\* Mapper.idResolver (lines 245-247)
Mapper_idResolver(ms, i, array, idField) ==
    transform(ms, i, Step("find", 0, idField, array),
                     Step("idOf", 0, idField, Undefined))

\* Variant: min bounds from above.
NumberMapper_min_Upper(ms, i, m) ==
    transform(ms, i, Step("max", 0, "", Num(m)), IdStep)

\* NumberMapper.abs / min / max (lines 260-270)
NumberMapper_abs(ms, i) ==
    transform(ms, i, Step("abs", 0, "", Undefined), IdStep)
NumberMapper_min(ms, i, m) ==
    transform(ms, i, Step("min", 0, "", Num(m)), IdStep)
NumberMapper_max(ms, i, m) ==
    transform(ms, i, Step("max", 0, "", Num(m)), IdStep)

\* Variant: to keeps writing from the source name.
JsonValue_to_ByName(ms, i, modelName) ==
    Append(ms, NewMapper("JsonValue", ms[i].name, modelName,
                         ms[i].read, <<GetStep(ms[i].name)>>))

\* Variant: to renames the receiver itself.
JsonValue_to_InPlace(ms, i, modelName) ==
    [ms EXCEPT ![i].modelName = modelName,
               ![i].write = <<GetStep(modelName)>>]

\* JsonValue.to (lines 288-291) and JsonNode.to (lines 323-326)
JsonValue_to(ms, i, modelName) ==
    Append(ms, NewMapper("JsonValue", ms[i].name, modelName,
                         ms[i].read, <<GetStep(modelName)>>))
JsonNode_to(ms, i, modelName) ==
    Append(ms, NewMapper("JsonNode", ms[i].name, modelName,
                         ms[i].read, <<GetStep(modelName)>>))
to(ms, i, modelName) ==
    IF ms[i].kind = "JsonNode" THEN JsonNode_to(ms, i, modelName)
    ELSE JsonValue_to(ms, i, modelName)

\* JsonValue.rawTransform (lines 301-303)
JsonValue_rawTransform(ms, i, read, write) ==
    Append(ms, NewMapper("Mapper", ms[i].name, ms[i].modelName, read, write))

\* JsonNode.is (lines 328-332), past its invariant
JsonNode_is(ms, i, fi) ==
    transform(ms, i, Step("formatRead", fi, "", Undefined),
                     Step("formatWrite", fi, "", Undefined))

\* json`name` (lines 310-314) and node`name` (lines 335-339)
json(name) ==
    NewMapper("JsonValue", name, name, <<GetStep(name)>>, <<GetStep(name)>>)
node(name) ==
    NewMapper("JsonNode", name, name, <<GetStep(name)>>, <<GetStep(name)>>)

Last(seq) == seq[Len(seq)]

\* number`name` (lines 343-345) and boolean`name` (lines 347-349)
number(name)  == Last(Mapper_number(<<json(name)>>, 1))
boolean(name) == Last(Mapper_boolean(<<json(name)>>, 1))

-----------------------------------------------------------------------------
(* Formats.  A method takes the heap fs and returns the heap after the call. *)

\* The fields of a Format (lines 24-27) after its constructor (lines 35-47).
\* kind is the class constructed: Format, or the anonymous subclass of
\* readonly() / writeonly(), whose closure holds silent.
NewFormat(kind, cl, ml, silent) ==
    [kind |-> kind, cl |-> cl, mappers |-> ml, dropUndefined |-> TRUE,
     silent |-> silent]

\* Variant: silent has no default.
DefaultParameter_None(given, default) == given

\* A parameter with a default value: silent: boolean = true
DefaultParameter(given, default) ==
    IF given = Undefined THEN default ELSE given

\* new Format( cl, ...mappers )
Format_constructor(fs, cl, ml) ==
    Append(fs, NewFormat("Format", cl, ml, Undefined))

\* Format.writeonly (lines 82-91) and Format.readonly (lines 98-107)
Format_writeonly(fs, fi, silent) ==
    Append(fs, NewFormat("writeonly", fs[fi].cl, fs[fi].mappers,
                         DefaultParameter(silent, Bool(TRUE))))
Format_readonly(fs, fi, silent) ==
    Append(fs, NewFormat("readonly", fs[fi].cl, fs[fi].mappers,
                         DefaultParameter(silent, Bool(TRUE))))

\* Variant: the extra mappers come after the base's.
Format_extend_Appended(fs, fi, cl, ml) ==
    Format_constructor(fs, cl, fs[fi].mappers \o ml)

\* Format.extend (lines 148-151), past its invariant
Format_extend(fs, fi, cl, ml) ==
    Format_constructor(fs, cl, ml \o fs[fi].mappers)

\* No class given, no format given.
NoClass  == "null"
NoFormat == 0

\* All lists of at most k elements of S.
Lists(S, k) == UNION {[1..n -> S] : n \in 0..k}

-----------------------------------------------------------------------------
(* The operations *)

\* The record of a call: the operation, the format and the mapper it was
\* called on (0: none), its argument (arg; for extend the class, for write
\* from is the source the model was read from), the functions or mappers
\* passed (steps, list), and its outcome.
NoCall ==
    [op |-> "", fi |-> 0, mi |-> 0, arg |-> Undefined, from |-> Undefined,
     steps |-> << >>, list |-> << >>,
     result |-> Undefined, raised |-> FALSE, trace |-> << >>,
     constructed |-> FALSE]

\* A call on mapper i that constructs a mapper: the heap after it is ms.
Chained(op, i, arg, steps, ms) ==
    /\ budget.mappers > 0
    /\ mappers' = ms
    /\ call' = [NoCall EXCEPT !.op = op, !.mi = i, !.arg = arg, !.steps = steps]
    /\ chain' = Append(chain, [op |-> op, mi |-> i, arg |-> arg,
                               steps |-> steps])
    /\ budget' = [budget EXCEPT !.mappers = @ - 1]
    /\ UNCHANGED <<formats, origin>>

\* A call on format fi that constructs a format: the heap after it is fs.
Built(op, fi, cl, ml, silent, fs) ==
    /\ budget.formats > 0
    /\ formats' = fs
    /\ call' = [NoCall EXCEPT !.op = op, !.fi = fi, !.arg = silent, !.list = ml]
    /\ origin' = Append(origin, [op |-> op, fi |-> fi, cl |-> cl, ml |-> ml,
                                 silent |-> silent])
    /\ budget' = [budget EXCEPT !.formats = @ - 1]
    /\ UNCHANGED <<mappers, chain>>

\* A call that raises before it constructs anything.
Rejected(op, fi, mi, arg) ==
    /\ call' = [NoCall EXCEPT !.op = op, !.fi = fi, !.mi = mi, !.arg = arg,
                              !.raised = TRUE]
    /\ UNCHANGED <<mappers, formats, chain, origin, budget>>

IsEntry(i)  == mappers[i].kind \in {"JsonValue", "JsonNode"}
IsNumber(i) == mappers[i].kind = "NumberMapper"

Call_json(name) ==
    Chained("json", 0, Str(name), << >>, Append(mappers, json(name)))
Call_node(name) ==
    Chained("node", 0, Str(name), << >>, Append(mappers, node(name)))
Call_number(name) ==
    Chained("number", 0, Str(name), << >>, Append(mappers, number(name)))
Call_boolean(name) ==
    Chained("boolean", 0, Str(name), << >>, Append(mappers, boolean(name)))

Call_to(i, modelName) ==
    /\ IsEntry(i)
    /\ Chained("to", i, Str(modelName), << >>, to(mappers, i, modelName))
Call_rawTransform(i, read, write) ==
    /\ IsEntry(i)
    /\ Chained("rawTransform", i, Undefined, <<read, write>>,
               JsonValue_rawTransform(mappers, i, read, write))
Call_is(i, fi) ==
    /\ mappers[i].kind = "JsonNode"
    /\ IF fi = NoFormat THEN Rejected("is", fi, i, Null)
       ELSE Chained("is", i, Num(fi), << >>, JsonNode_is(mappers, i, fi))

Call_Mapper_boolean(i) ==
    Chained("Mapper.boolean", i, Undefined, << >>, Mapper_boolean(mappers, i))
Call_Mapper_number(i) ==
    Chained("Mapper.number", i, Undefined, << >>, Mapper_number(mappers, i))
Call_Mapper_readonly(i) ==
    Chained("Mapper.readonly", i, Undefined, << >>, Mapper_readonly(mappers, i))
Call_Mapper_writeonly(i) ==
    Chained("Mapper.writeonly", i, Undefined, << >>, Mapper_writeonly(mappers, i))
Call_arrayOf(i, fi) ==
    Chained("arrayOf", i, Num(fi), << >>, Mapper_arrayOf(mappers, i, fi))
Call_date(i, format) ==
    Chained("date", i, Str(format), << >>, Mapper_date(mappers, i, format))
Call_defaultsTo(i, value) ==
    Chained("defaultsTo", i, value, << >>, Mapper_defaultsTo(mappers, i, value))
Call_idResolver(i, array, idField) ==
    Chained("idResolver", i, array, << >>,
            Mapper_idResolver(mappers, i, array, idField))
Call_transform(i, read, write) ==
    Chained("transform", i, Undefined, <<UserStep(read), UserStep(write)>>,
            transform(mappers, i, UserStep(read), UserStep(write)))

Call_abs(i) ==
    IsNumber(i) /\ Chained("abs", i, Undefined, << >>, NumberMapper_abs(mappers, i))
Call_min(i, m) ==
    IsNumber(i) /\ Chained("min", i, Num(m), << >>, NumberMapper_min(mappers, i, m))
Call_max(i, m) ==
    IsNumber(i) /\ Chained("max", i, Num(m), << >>, NumberMapper_max(mappers, i, m))

\* new Format( cl, ...ml ): reduce throws a TypeError on an empty list
\* (line 46), and no Format comes to be.
Call_Format(cl, ml) ==
    IF ml = << >> THEN Rejected("Format", 0, 0, Str(cl))
    ELSE Built("Format", 0, cl, ml, Undefined,
               Format_constructor(formats, cl, ml))

\* format.extend( cl, ...ml ): invariant( !!cl ) raises (line 149).
Call_extend(fi, cl, ml) ==
    IF cl = NoClass THEN Rejected("extend", fi, 0, Null)
    ELSE Built("extend", fi, cl, ml, Undefined,
               Format_extend(formats, fi, cl, ml))

Call_Format_readonly(fi, silent) ==
    Built("Format.readonly", fi, formats[fi].cl, << >>, silent,
          Format_readonly(formats, fi, silent))
Call_Format_writeonly(fi, silent) ==
    Built("Format.writeonly", fi, formats[fi].cl, << >>, silent,
          Format_writeonly(formats, fi, silent))

\* format.dropUndefined = b: the field is public (line 26).
Set_dropUndefined(fi, b) ==
    /\ formats[fi].dropUndefined # b
    /\ formats' = [formats EXCEPT ![fi].dropUndefined = b]
    /\ call' = [NoCall EXCEPT !.op = "dropUndefined", !.fi = fi, !.arg = Bool(b)]
    /\ UNCHANGED <<mappers, chain, origin, budget>>

\* The outcome of a call of read or write, recorded.
Recorded(op, fi, mi, arg, from, outcome) ==
    [NoCall EXCEPT !.op = op, !.fi = fi, !.mi = mi, !.arg = arg, !.from = from,
                   !.result = outcome.result, !.raised = outcome.raised,
                   !.trace = outcome.trace,
                   !.constructed = outcome.constructed]

\* format.read( source )
Call_read(fi, source) ==
    /\ call' = Recorded("read", fi, 0, source, Undefined,
                        Format_read(fi, source))
    /\ UNCHANGED <<mappers, formats, chain, origin, budget>>

\* format.write( model ); from is the source the model was read from, when
\* the model is what the last read returned.
Call_write(fi, model, from) ==
    /\ call' = Recorded("write", fi, 0, model, from, Format_write(fi, model))
    /\ UNCHANGED <<mappers, formats, chain, origin, budget>>

\* An exception of a mapper's own function reaches whoever called it.
Direct(value, mi) ==
    Outcome(IF value = Thrown THEN Undefined ELSE value, value = Thrown,
            <<mi>>, FALSE)

\* mapper.read( source ) and mapper.write( model ), called directly
Call_Mapper_read(mi, source) ==
    /\ call' = Recorded("Mapper.read", 0, mi, source, Undefined,
                        Direct(Mapper_read(mappers[mi], source), mi))
    /\ UNCHANGED <<mappers, formats, chain, origin, budget>>
Call_Mapper_write(mi, model) ==
    /\ call' = Recorded("Mapper.write", 0, mi, model, Undefined,
                        Direct(Mapper_write(mappers[mi], model), mi))
    /\ UNCHANGED <<mappers, formats, chain, origin, budget>>

-----------------------------------------------------------------------------
(* Specification Spec: formats over json mappers, read and written.        *)

\* The caller constructs at most this many mappers and this many formats,
\* and passes at most MaxArgs mappers to one constructor or extend call.
MaxMappers == 2
MaxFormats == 2
MaxArgs == 2

Object(fields) == Obj("Object", fields)

\* What read is called with.
Sources ==
    { Null,
      Object([k \in {"a"} |-> Num(1)]),
      Object([k \in {"a", "b"} |-> IF k = "a" THEN Null ELSE Num(0)]) }

\* What write is called with, besides what read returned.
Models ==
    { Null,
      Obj("Test", [k \in {"a"} |-> Str("x")]) }

\* What readonly() and writeonly() are called with.
SilentArgs == {Undefined, Bool(TRUE), Bool(FALSE)}

\* The pairs of functions given to transform.
Transforms == {<<"throw", "id">>, <<"id", "throw">>}

Init ==
    /\ mappers = << >>
    /\ formats = << >>
    /\ call = NoCall
    /\ chain = << >>
    /\ origin = << >>
    /\ budget = [mappers |-> MaxMappers, formats |-> MaxFormats]

Next ==
    \/ \E n \in Names : Call_json(n)
    \/ \E i \in DOMAIN mappers, g \in Names : Call_to(i, g)
    \/ \E i \in DOMAIN mappers : Call_Mapper_readonly(i)
    \/ \E i \in DOMAIN mappers : Call_Mapper_writeonly(i)
    \/ \E i \in DOMAIN mappers : Call_defaultsTo(i, Num(1))
    \/ \E i \in DOMAIN mappers, t \in Transforms : Call_transform(i, t[1], t[2])
    \/ \E ml \in Lists(DOMAIN mappers, MaxArgs) : Call_Format("Test", ml)
    \/ \E fi \in DOMAIN formats, cl \in {"Test2", "Broken", NoClass},
          ml \in Lists(DOMAIN mappers, MaxArgs - 1) : Call_extend(fi, cl, ml)
    \/ \E fi \in DOMAIN formats, s \in SilentArgs : Call_Format_readonly(fi, s)
    \/ \E fi \in DOMAIN formats, s \in SilentArgs : Call_Format_writeonly(fi, s)
    \/ \E fi \in DOMAIN formats, b \in BOOLEAN : Set_dropUndefined(fi, b)
    \/ \E fi \in DOMAIN formats, source \in Sources : Call_read(fi, source)
    \/ \E fi \in DOMAIN formats, model \in Models :
          Call_write(fi, model, Undefined)
    \/ \E fi \in DOMAIN formats :
          /\ call.op = "read"
          /\ call.fi = fi
          /\ ~call.raised
          /\ Call_write(fi, call.result, call.arg)

Spec == Init /\ [][Next]_vars

-----------------------------------------------------------------------------
(* Specification SpecMapper: chains on one field, read and written         *)
(* directly.                                                                *)

\* The caller constructs at most MaxChain mappers, gives min and max bounds
\* within -MaxBound..MaxBound and reads numbers within -MaxInput..MaxInput.
MaxChain == 3
MaxBound == 1
MaxInput == 2

Bounds == -MaxBound..MaxBound

NumberSources ==
    {Object([k \in {"a"} |-> Num(v)]) : v \in -MaxInput..MaxInput}
        \cup {Object(NoFields)}

NumberModels == {Obj("Test", [k \in {"a"} |-> Num(v)]) : v \in {0, 2}}

InitMapper ==
    /\ mappers = << >>
    /\ formats = << >>
    /\ call = NoCall
    /\ chain = << >>
    /\ origin = << >>
    /\ budget = [mappers |-> MaxChain, formats |-> 0]

NextMapper ==
    \/ Call_json("a")
    \/ Call_number("a")
    \/ \E i \in DOMAIN mappers : Call_Mapper_number(i)
    \/ \E i \in DOMAIN mappers : Call_abs(i)
    \/ \E i \in DOMAIN mappers, m \in Bounds : Call_min(i, m)
    \/ \E i \in DOMAIN mappers, m \in Bounds : Call_max(i, m)
    \/ \E i \in DOMAIN mappers : Call_defaultsTo(i, Num(1))
    \/ \E i \in DOMAIN mappers : Call_transform(i, "const0", "const0")
    \/ \E i \in DOMAIN mappers, source \in NumberSources :
          Call_Mapper_read(i, source)
    \/ \E i \in DOMAIN mappers, model \in NumberModels :
          Call_Mapper_write(i, model)

SpecMapper == InitMapper /\ [][NextMapper]_vars

-----------------------------------------------------------------------------
(* Specification SpecAll: every operation of the library, from the          *)
(* configuration json`a`, number`b`, node`a` and new Format( Foo, json`a` ).*)

\* The caller constructs at most MaxExtra more mappers and MaxExtra more
\* formats.
MaxExtra == 1

Entry(op, name) ==
    [op |-> op, mi |-> 0, arg |-> Str(name), steps |-> << >>]

AllSources ==
    { Null,
      Object([k \in {"a"} |-> Num(1)]),
      Object([k \in {"a", "b"} |->
                 IF k = "a" THEN Arr(<<Object([j \in {"a"} |-> Str("1")])>>)
                 ELSE Str("2")]) }

AllModels ==
    { Obj("Test", [k \in {"a", "b"} |->
                      IF k = "a" THEN Obj("Foo", [j \in {"a"} |-> Num(1)])
                      ELSE Num(-1)]) }

InitAll ==
    /\ mappers = <<json("a"), number("b"), node("a")>>
    /\ formats = <<NewFormat("Format", "Foo", <<1>>, Undefined)>>
    /\ call = NoCall
    /\ chain = <<Entry("json", "a"), Entry("number", "b"), Entry("node", "a")>>
    /\ origin = <<[op |-> "Format", fi |-> 0, cl |-> "Foo", ml |-> <<1>>,
                   silent |-> Undefined]>>
    /\ budget = [mappers |-> MaxExtra, formats |-> MaxExtra]

NextAll ==
    \/ \E n \in Names : Call_json(n)
    \/ \E n \in Names : Call_node(n)
    \/ \E n \in Names : Call_number(n)
    \/ \E n \in Names : Call_boolean(n)
    \/ \E i \in DOMAIN mappers, g \in Names : Call_to(i, g)
    \/ \E i \in DOMAIN mappers :
          Call_rawTransform(i, <<UserStep("rawSum")>>, NoFunction)
    \/ \E i \in DOMAIN mappers, fi \in DOMAIN formats \cup {NoFormat} :
          Call_is(i, fi)
    \/ \E i \in DOMAIN mappers : Call_Mapper_boolean(i)
    \/ \E i \in DOMAIN mappers : Call_Mapper_number(i)
    \/ \E i \in DOMAIN mappers : Call_Mapper_readonly(i)
    \/ \E i \in DOMAIN mappers : Call_Mapper_writeonly(i)
    \/ \E i \in DOMAIN mappers, fi \in DOMAIN formats : Call_arrayOf(i, fi)
    \/ \E i \in DOMAIN mappers : Call_date(i, DefaultDateFormat)
    \/ \E i \in DOMAIN mappers : Call_defaultsTo(i, Num(1))
    \/ \E i \in DOMAIN mappers : Call_idResolver(i, objectToResolve, "id")
    \/ \E i \in DOMAIN mappers :
          Call_transform(i, "boolString", "throw")
    \/ \E i \in DOMAIN mappers : Call_abs(i)
    \/ \E i \in DOMAIN mappers, m \in Bounds : Call_min(i, m)
    \/ \E i \in DOMAIN mappers, m \in Bounds : Call_max(i, m)
    \/ \E ml \in Lists(DOMAIN mappers, MaxArgs) : Call_Format("Test", ml)
    \/ \E fi \in DOMAIN formats, cl \in {"Test2", NoClass},
          ml \in Lists(DOMAIN mappers, MaxArgs - 1) : Call_extend(fi, cl, ml)
    \/ \E fi \in DOMAIN formats, s \in SilentArgs : Call_Format_readonly(fi, s)
    \/ \E fi \in DOMAIN formats, s \in SilentArgs : Call_Format_writeonly(fi, s)
    \/ \E fi \in DOMAIN formats, b \in BOOLEAN : Set_dropUndefined(fi, b)
    \/ \E fi \in DOMAIN formats, source \in AllSources : Call_read(fi, source)
    \/ \E fi \in DOMAIN formats, model \in AllModels :
          Call_write(fi, model, Undefined)
    \/ \E i \in DOMAIN mappers, source \in AllSources \ {Null} :
          Call_Mapper_read(i, source)
    \/ \E i \in DOMAIN mappers, model \in AllModels :
          Call_Mapper_write(i, model)

SpecAll == InitAll /\ [][NextAll]_vars

-----------------------------------------------------------------------------
(* What the claims speak of *)

\* The format and the mapper list the last read or write was called on.
This     == formats[call.fi]
List     == This.mappers
At(k)    == mappers[List[k]]
Max(S)   == CHOOSE k \in S : \A j \in S : j <= k
Min(S)   == CHOOSE k \in S : \A j \in S : k <= j

IsRead   == call.op = "read"
IsWrite  == call.op = "write"

\* The operation a readonly() / writeonly() format has replaced.
Replaced ==
    \/ IsRead /\ This.kind = "writeonly"
    \/ IsWrite /\ This.kind = "readonly"

\* What the k-th mapper of the list reads from the source of the last read,
\* and writes from the model of the last write.
ReadOf(k)  == Mapper_read(At(k), call.arg)
WriteOf(k) == Mapper_write(At(k), call.arg)

\* The positions of format fi whose mapper assigns the field x of the
\* instance when source is read.
Assigners(fi, x, source) ==
    {k \in DOMAIN formats[fi].mappers :
        LET m == mappers[formats[fi].mappers[k]]
        IN  /\ m.modelName = x
            /\ ~(formats[fi].dropUndefined /\ Mapper_read(m, source) = Undefined)}

\* The positions whose mapper assigns the field x of the instance (read),
\* and the key x of the output (write).
Readers(x) == Assigners(call.fi, x, call.arg)
Writers(x) ==
    {k \in DOMAIN List :
        /\ At(k).name = x
        /\ At(k).write # NoFunction
        /\ ~(This.dropUndefined /\ WriteOf(k) = Undefined)}

-----------------------------------------------------------------------------
\* C1 as claimed: on every format, also one returned by readonly() or
\* writeonly(), read( null ) and write( null ) return null, construct no
\* entity and invoke no mapper.
C1_Claimed ==
    ((IsRead \/ IsWrite) /\ call.arg = Null) =>
        /\ call.result = Null
        /\ ~call.raised
        /\ call.trace = << >>
        /\ ~call.constructed

\* C1 (amended): read( null ) and write( null ) return null, except for the
\* operation that readonly() / writeonly() has replaced, which returns
\* undefined (and raises when silent is false); no entity is constructed and
\* no mapper is invoked either way.
C1_NullInNullOut ==
    ((IsRead \/ IsWrite) /\ call.arg = Null) =>
        /\ call.trace = << >>
        /\ ~call.constructed
        /\ IF Replaced
           THEN /\ call.result = Undefined
                /\ call.raised <=> origin[call.fi].silent = Bool(FALSE)
           ELSE /\ call.result = Null
                /\ ~call.raised

C1_Witness ==
    /\ IsWrite
    /\ call.arg = Null
    /\ call.result = Null
    /\ This.kind = "writeonly"
    /\ Len(List) = 2

-----------------------------------------------------------------------------
\* C2 as claimed: of two mappers with the same target name, the later one's
\* read result is the value of the field; of two with the same source name,
\* the later one's write result is the value written.
C2_Claimed ==
    /\ (IsRead /\ call.result.t = "object") =>
          \A p, q \in DOMAIN List :
             (/\ p < q
              /\ At(p).modelName = At(q).modelName
              /\ \A r \in DOMAIN List :
                    At(r).modelName = At(q).modelName => r <= q)
             => Get(call.result, At(q).modelName) = ReadOf(q)
    /\ (IsWrite /\ call.result.t = "object") =>
          \A p, q \in DOMAIN List :
             (/\ p < q
              /\ At(p).name = At(q).name
              /\ \A r \in DOMAIN List : At(r).name = At(q).name => r <= q)
             => Get(call.result, At(q).name) = WriteOf(q)

\* C2 (amended): of the mappers with the same target name, the last one
\* whose read result is assigned (every one when dropUndefined is false,
\* those reading something other than undefined when it is true) gives the
\* field its value, and the field keeps the constructor's value when none
\* is; likewise for write and the source name.
C2_LastAssignedWins ==
    /\ (IsRead /\ call.result.t = "object") =>
          \A x \in Names :
             Cardinality({k \in DOMAIN List : At(k).modelName = x}) >= 2 =>
                IF Readers(x) # {}
                THEN /\ x \in DOMAIN call.result.f
                     /\ call.result.f[x] = ReadOf(Max(Readers(x)))
                ELSE Get(call.result, x) = Get(New(This.cl), x)
    /\ (IsWrite /\ call.result.t = "object") =>
          \A x \in Names :
             Cardinality({k \in DOMAIN List : At(k).name = x}) >= 2 =>
                IF Writers(x) # {}
                THEN /\ x \in DOMAIN call.result.f
                     /\ call.result.f[x] = WriteOf(Max(Writers(x)))
                ELSE x \notin DOMAIN call.result.f

\* Two mappers target a; the later one reads 1 where the earlier reads
\* something else, and a is 1.
C2_Witness ==
    /\ IsRead
    /\ call.result.t = "object"
    /\ Len(List) = 2
    /\ At(1).modelName = "a"
    /\ At(2).modelName = "a"
    /\ ReadOf(1) = Null
    /\ ReadOf(2) = Num(1)
    /\ Get(call.result, "a") = Num(1)

-----------------------------------------------------------------------------
\* Mapper i is a json`f` entry, renamed with to( g ) or not, with no other
\* step.
RECURSIVE IsPlain(_)
IsPlain(i) ==
    \/ chain[i].op = "json"
    \/ chain[i].op = "to" /\ IsPlain(chain[i].mi)

\* No other mapper of the list shares the source or the target name of the
\* k-th.
Alone(k) ==
    \A j \in DOMAIN List \ {k} :
        At(j).name # At(k).name /\ At(j).modelName # At(k).modelName

\* The field is present in the source (any defined value, null included).
Present(source, field) ==
    /\ source.t = "object"
    /\ field \in DOMAIN source.f
    /\ source.f[field] # Undefined

\* The last call is write( read( source ) ) on one format.
IsRoundTrip == IsWrite /\ call.from # Undefined

-----------------------------------------------------------------------------
\* The positions whose mapper throws in the last read, in the last write.
ReadThrowers  == {k \in DOMAIN List : ReadOf(k) = Thrown}
WriteThrowers ==
    {k \in DOMAIN List : At(k).write # NoFunction /\ WriteOf(k) = Thrown}

\* C5: on a format built by the constructor or by extend, when the entity
\* constructor or a mapper throws during read or write of a non-absent
\* argument, the call returns undefined and raises nothing, and no mapper
\* after the throwing one is applied.
C5_Contained ==
    /\ (IsRead /\ This.kind = "Format" /\ Truthy(call.arg)
              /\ (New(This.cl) = Thrown \/ ReadThrowers # {})) =>
          /\ call.result = Undefined
          /\ ~call.raised
          /\ call.trace =
                IF New(This.cl) = Thrown THEN << >>
                ELSE [k \in 1..Min(ReadThrowers) |-> List[k]]
    /\ (IsWrite /\ This.kind = "Format" /\ Truthy(call.arg)
               /\ WriteThrowers # {}) =>
          /\ call.result = Undefined
          /\ ~call.raised
          /\ Last(call.trace) = List[Min(WriteThrowers)]
          /\ \A j \in DOMAIN call.trace :
                \E k \in 1..Min(WriteThrowers) : call.trace[j] = List[k]
          /\ Len(call.trace) <= 2 * Min(WriteThrowers) - 1

\* The first of three mappers throws on read: nothing else is applied.
C5_Witness ==
    /\ IsRead
    /\ This.kind = "Format"
    /\ call.arg.t = "object"
    /\ Len(List) = 3
    /\ ReadThrowers = {1}
    /\ call.trace = <<List[1]>>
    /\ List[2] # List[1]
    /\ call.result = Undefined

-----------------------------------------------------------------------------
\* C6: write on a readonly( silent ) format and read on a
\* writeonly( silent ) format produce nothing, apply no mapper, and raise
\* if and only if silent was passed as false.
C6_Direction ==
    ((IsRead \/ IsWrite) /\ Replaced) =>
        /\ call.result = Undefined
        /\ ~call.constructed
        /\ call.trace = << >>
        /\ call.raised <=> origin[call.fi].silent = Bool(FALSE)
        /\ origin[call.fi].silent = Undefined => ~call.raised

C6_Witness ==
    /\ IsRead
    /\ This.kind = "writeonly"
    /\ call.arg.t = "object"
    /\ origin[call.fi].silent = Bool(FALSE)
    /\ call.raised

-----------------------------------------------------------------------------
\* The format the last read was called on came from base.extend( S, e ).
Base   == origin[call.fi].fi
Extras == origin[call.fi].ml
IsExtendedRead ==
    IsRead /\ origin[call.fi].op = "extend" /\ call.arg.t = "object"

\* Every format made by extend has the subtype as its entity type and the
\* extra mappers followed by the base's as its mapper list; extend with an
\* absent subtype raises.
C7_Structure ==
    /\ \A fi \in DOMAIN formats :
          origin[fi].op = "extend" =>
             /\ formats[fi].kind = "Format"
             /\ formats[fi].cl = origin[fi].cl
             /\ formats[fi].cl # NoClass
             /\ formats[fi].mappers =
                   origin[fi].ml \o formats[origin[fi].fi].mappers
    /\ (call.op = "extend" /\ call.arg = Null) => call.raised
    /\ Len(formats) = Len(origin)

\* The instance carries what base.read sets from the same source (nothing
\* when base.read returns no instance), and what the extra mappers read where
\* no mapper of the base assigns the field.
C7_Carries ==
    /\ call.result.t = "object"
    /\ call.result.s = origin[call.fi].cl
    /\ LET based == Format_read(Base, call.arg).result
       IN  based.t = "object" =>
              \A x \in Names :
                 Assigners(Base, x, call.arg) # {} =>
                    /\ x \in DOMAIN call.result.f
                    /\ call.result.f[x] = Get(based, x)
    /\ \A k \in DOMAIN Extras :
          LET x == At(k).modelName
          IN  (Readers(x) # {} /\ k = Max(Readers(x))) =>
                 Get(call.result, x) = ReadOf(k)

-----------------------------------------------------------------------------
\* C9: with dropUndefined true, read assigns undefined to no field (a field
\* whose mappers all read undefined keeps the constructor's value, any other
\* the value of the last mapper that read something), and the object write
\* returns has no key whose value is undefined.
C9_DropUndefined ==
    /\ (IsRead /\ This.dropUndefined /\ call.result.t = "object") =>
          /\ \A x \in DOMAIN call.result.f : call.result.f[x] # Undefined
          /\ \A x \in Names :
                Get(call.result, x) =
                   IF Readers(x) = {} THEN Get(New(This.cl), x)
                   ELSE ReadOf(Max(Readers(x)))
    /\ (IsWrite /\ This.dropUndefined /\ call.result.t = "object") =>
          /\ \A x \in DOMAIN call.result.f : call.result.f[x] # Undefined
          /\ \A x \in Names :
                (\A k \in DOMAIN List :
                    At(k).name = x /\ At(k).write # NoFunction
                       => WriteOf(k) = Undefined)
                => x \notin DOMAIN call.result.f

\* The mapper for b reads undefined and b keeps the constructor's value.
C9_Witness ==
    /\ IsRead
    /\ This.dropUndefined
    /\ This.cl = "Test2"
    /\ \E k \in DOMAIN List : At(k).modelName = "b" /\ ReadOf(k) = Undefined
    /\ Get(call.result, "b") = Str("ctor")
    /\ Get(call.result, "a") = Num(1)

-----------------------------------------------------------------------------
\* The mapper the last call was made on, and the one it returned.
Receiver == mappers[call.mi]
Made     == Last(mappers)

\* What falsy substitution gives for the value v and the fallback d.
OrElse(v, d) == IF Truthy(v) THEN v ELSE d

\* C3 as claimed: m.transform( readStep, writeStep ) reads by readStep after
\* m.read and writes by writeStep after m.write, whatever the kind of m, and
\* a mapper made by defaultsTo( fallback ) substitutes fallback for a falsy
\* value both when it reads and when it writes.
C3_Claimed ==
    /\ call.op = "transform" =>
          /\ Made.read = Compose(Receiver.read, call.steps[1])
          /\ Made.write = Compose(Receiver.write, call.steps[2])
    /\ (call.op = "Mapper.read" /\ chain[call.mi].op = "defaultsTo") =>
          call.result =
             OrElse(Mapper_read(mappers[chain[call.mi].mi], call.arg),
                    chain[call.mi].arg)
    /\ (call.op = "Mapper.write" /\ chain[call.mi].op = "defaultsTo") =>
          call.result =
             OrElse(Mapper_write(mappers[chain[call.mi].mi], call.arg),
                    chain[call.mi].arg)

-----------------------------------------------------------------------------
\* Mapper i is number`f` or json`f`.number().
IsNumberEntry(i) ==
    \/ chain[i].op = "number"
    \/ chain[i].op = "Mapper.number" /\ chain[chain[i].mi].op = "json"

\* Mapper r is number().min( lo ).max( hi ) / number().max( hi ).min( lo ).
IsMinMax(r) ==
    /\ chain[r].op = "max"
    /\ chain[chain[r].mi].op = "min"
    /\ IsNumberEntry(chain[chain[r].mi].mi)
IsMaxMin(r) ==
    /\ chain[r].op = "min"
    /\ chain[chain[r].mi].op = "max"
    /\ IsNumberEntry(chain[chain[r].mi].mi)

\* The bound given to mapper r, and the one given to the mapper before it.
Outer(r) == chain[r].arg.n
Inner(r) == chain[chain[r].mi].arg.n

Clamp(v, lo, hi) == IF v < lo THEN lo ELSE IF v > hi THEN hi ELSE v

\* The last call read a number through a mapper.
IsNumberRead ==
    /\ call.op = "Mapper.read"
    /\ Get(call.arg, "a").t = "number"
Input == Get(call.arg, "a").n

\* The last call read 0 or no number at all.
IsFalsyRead ==
    /\ call.op = "Mapper.read"
    /\ ~Truthy(ToNumber(Get(call.arg, "a")))

\* C10 as claimed: for lo <= hi both orders read a non-zero number to that
\* number clamped into [lo, hi].
C10_Claimed ==
    (IsNumberRead /\ Input # 0) =>
        /\ (IsMinMax(call.mi) /\ Inner(call.mi) <= Outer(call.mi)) =>
              call.result = Num(Clamp(Input, Inner(call.mi), Outer(call.mi)))
        /\ (IsMaxMin(call.mi) /\ Outer(call.mi) <= Inner(call.mi)) =>
              call.result = Num(Clamp(Input, Outer(call.mi), Inner(call.mi)))

\* C10 (amended): for lo <= hi both orders read a non-zero number to that
\* number clamped into [lo, hi], except that min( 0 ).max( hi ) reads a
\* negative number to hi and max( 0 ).min( lo ) reads a positive number to
\* lo (the first step yields 0, which the second takes for no value); on 0
\* and on what is not a number the first step substitutes its bound and the
\* second acts on that bound, substituting its own when the first bound is 0.
C10_Clamp ==
    /\ (IsNumberRead /\ Input # 0) =>
          /\ (IsMinMax(call.mi) /\ Inner(call.mi) <= Outer(call.mi)) =>
                call.result =
                   IF Inner(call.mi) = 0 /\ Input < 0
                   THEN Num(Outer(call.mi))
                   ELSE Num(Clamp(Input, Inner(call.mi), Outer(call.mi)))
          /\ (IsMaxMin(call.mi) /\ Outer(call.mi) <= Inner(call.mi)) =>
                call.result =
                   IF Inner(call.mi) = 0 /\ Input > 0
                   THEN Num(Outer(call.mi))
                   ELSE Num(Clamp(Input, Outer(call.mi), Inner(call.mi)))
    /\ IsFalsyRead =>
          /\ (IsMinMax(call.mi) /\ Inner(call.mi) <= Outer(call.mi)) =>
                call.result =
                   Num(IF Inner(call.mi) = 0 THEN Outer(call.mi)
                       ELSE Inner(call.mi))
          /\ (IsMaxMin(call.mi) /\ Outer(call.mi) <= Inner(call.mi)) =>
                call.result =
                   Num(IF Inner(call.mi) = 0 THEN Outer(call.mi)
                       ELSE Inner(call.mi))

\* number`a`.min( -1 ).max( 1 ) reads 2 to 1.
C10_Witness ==
    /\ IsNumberRead
    /\ Input = 2
    /\ IsMinMax(call.mi)
    /\ Inner(call.mi) = -1
    /\ Outer(call.mi) = 1
    /\ call.result = Num(1)

-----------------------------------------------------------------------------
\* The operations that return a new mapper, and those that return a new
\* format.
ChainOps ==
    {"json", "node", "number", "boolean", "to", "rawTransform", "is",
     "Mapper.boolean", "Mapper.number", "Mapper.readonly", "Mapper.writeonly",
     "arrayOf", "date", "defaultsTo", "idResolver", "transform",
     "abs", "min", "max"}
FormatOps == {"Format", "extend", "Format.readonly", "Format.writeonly"}

\* C8: no operation changes a mapper or a format constructed before it (the
\* caller's own assignment to dropUndefined changes that field and nothing
\* else); a chain operation that does not raise returns a new mapper, a
\* format operation that does not raise a new format, and read and write
\* construct neither.
C8_Immutable ==
    [][/\ Len(mappers') >= Len(mappers)
       /\ Len(formats') >= Len(formats)
       /\ \A i \in DOMAIN mappers : mappers'[i] = mappers[i]
       /\ \A fi \in DOMAIN formats :
             /\ formats'[fi].kind = formats[fi].kind
             /\ formats'[fi].cl = formats[fi].cl
             /\ formats'[fi].mappers = formats[fi].mappers
             /\ formats'[fi].silent = formats[fi].silent
             /\ call'.op # "dropUndefined" =>
                   formats'[fi].dropUndefined = formats[fi].dropUndefined
       /\ (call'.op \in ChainOps /\ ~call'.raised) =>
             /\ Len(mappers') = Len(mappers) + 1
             /\ formats' = formats
       /\ (call'.op \in FormatOps /\ ~call'.raised) =>
             /\ Len(formats') = Len(formats) + 1
             /\ mappers' = mappers
       /\ (call'.op \notin ChainOps \cup FormatOps \/ call'.raised) =>
             /\ Len(mappers') = Len(mappers)
             /\ Len(formats') = Len(formats)
      ]_vars

\* A mapper renamed with to and a format extended from the first one, after
\* a read through the new format.
C8_Witness ==
    /\ call.op = "read"
    /\ call.result.t = "object"
    /\ call.fi = Len(formats)
    /\ origin[call.fi].op = "extend"
    /\ chain[Len(chain)].op = "to"
    /\ Len(chain) \in DOMAIN mappers
    /\ mappers[1] = json("a")

-----------------------------------------------------------------------------
\* The format readonly() or writeonly() was called on to make the format of
\* the last call.
Deriving == origin[call.fi].fi

\* The last call went through a format made by readonly() / writeonly(), in
\* the direction it permits, and the caller has left the new format's
\* dropUndefined as it was made.
IsPermittedRead ==
    IsRead /\ This.kind = "readonly" /\ This.dropUndefined
IsPermittedWrite ==
    IsWrite /\ This.kind = "writeonly" /\ This.dropUndefined

\* C11 as claimed: for either value of B.dropUndefined, B.readonly().read(
\* source ) returns what B.read( source ) returns, and B.writeonly().write(
\* model ) what B.write( model ) returns: the same keys with the same values.
C11_Claimed ==
    /\ IsPermittedRead =>
          /\ call.result = Format_read(Deriving, call.arg).result
          /\ call.raised = Format_read(Deriving, call.arg).raised
    /\ IsPermittedWrite =>
          /\ call.result = Format_write(Deriving, call.arg).result
          /\ call.raised = Format_write(Deriving, call.arg).raised

=============================================================================
